---- MODULE Spec2Model ----
\* A model of sisyphus-matroska: the command synthesis of the merge job
\* (mkvmerge.py: MkvSourceTrack, MkvSource, MkvAttachment, MkvMerge) and of the
\* extract job (mkvextract.py: Mkvextract, mkvinfo.py: MkvInfo).
\*
\* Python values are tagged records, so that None, booleans, numbers and strings
\* stay distinct: [none |-> TRUE], [bool |-> b], [int |-> n], [str |-> s].
\* A command is a sequence of such values (its tokens).  A dict is a sequence of
\* [k, v] records with distinct keys, in insertion order.  A path is the string
\* it was built from.
EXTENDS Integers, Sequences, FiniteSets, TLC

VARIABLES
    sources,               \* MkvMerge.sources: the MkvSource objects, in order
    attachments,           \* MkvMerge.attachments
    track_order_override,  \* MkvMerge.track_order_override
    output,                \* MkvMerge.output (None until set)
    global_options,        \* MkvMerge.global_options
    data,                  \* Mkvextract.data (None until loaded)
    mkvinfo,               \* Mkvextract.mkvinfo.tracks (None until loaded)
    files,                 \* the files the process wrote and did not delete
    result                 \* what the last operation returned or raised

vars == <<sources, attachments, track_order_override, output, global_options,
          data, mkvinfo, files, result>>

mergeVars == <<sources, attachments, track_order_override, output, global_options>>

extractVars == <<data, mkvinfo>>

\* ---------------------------------------------------------------- bounds

\* The most tracks declared on the source of SpecSource.
MaxTracks == 2

\* The most objects (sources, declared tracks, attachments) a merge job of
\* Spec holds.
MaxSize == 4

\* ---------------------------------------------------------- Python values

None == [none |-> TRUE]

PyStr(s) == [str |-> s]

PyInt(n) == [int |-> n]

PyBool(b) == [bool |-> b]

IsNone(v) == "none" \in DOMAIN v

IsBool(v) == "bool" \in DOMAIN v

IsInt(v) == "int" \in DOMAIN v

IsStr(v) == "str" \in DOMAIN v

\* bool(v), as `if v:` and `not v` take it.
Truthy(v) ==
    IF IsNone(v) THEN FALSE
    ELSE IF IsBool(v) THEN v.bool
    ELSE IF IsInt(v) THEN v.int # 0
    ELSE v.str # ""

\* str(v), which is also what f"{v}" puts into a string.
Format(v) ==
    IF IsNone(v) THEN "None"
    ELSE IF IsBool(v) THEN (IF v.bool THEN "True" ELSE "False")
    ELSE IF IsInt(v) THEN ToString(v.int)
    ELSE v.str

\* sep.join(strs)
RECURSIVE Join(_, _)
Join(sep, strs) ==
    IF strs = <<>> THEN ""
    ELSE IF Len(strs) = 1 THEN strs[1]
    ELSE strs[1] \o sep \o Join(sep, Tail(strs))

\* seqs[1] \o seqs[2] \o ...
RECURSIVE Flatten(_)
Flatten(seqs) == IF seqs = <<>> THEN <<>> ELSE Head(seqs) \o Flatten(Tail(seqs))

\* list[i] with Python's indices: 0-based, negative ones counting from the end.
ValidIndex(list, i) == -Len(list) <= i /\ i < Len(list)

ListGet(list, i) == IF i >= 0 THEN list[i + 1] ELSE list[Len(list) + i + 1]

\* dict helpers: keys in insertion order, membership, lookup.
Keys(d) == [i \in 1..Len(d) |-> d[i].k]

HasKey(d, key) == \E i \in 1..Len(d) : d[i].k = key

\* ------------------------------------------------------------------ paths

\* The working directory of the process.
Cwd == "/work"

\* Path.absolute(): an absolute path is kept, a relative one is put under the
\* working directory.
Absolute(p) == IF Len(p) > 0 /\ Head(p) = "/" THEN p ELSE Cwd \o "/" \o p

\* Path.name: the part after the last separator.
RECURSIVE BaseName(_)
BaseName(p) ==
    IF \E i \in 1..Len(p) : SubSeq(p, i, i) = "/"
    THEN BaseName(SubSeq(p, (CHOOSE i \in 1..Len(p) : SubSeq(p, i, i) = "/") + 1, Len(p)))
    ELSE p

\* The mkvmerge binary found on the search path at import.
MKVMERGE_PATH == "/usr/bin/mkvmerge"

\* The mkvextract binary found on the search path at import.
MKVEXTRACT_PATH == "/usr/bin/mkvextract"

\* ------------------------------------------------------ inputs of the model

PyDict(d) == [dict |-> d]

PyList(l) == [list |-> l]

IsDict(v) == "dict" \in DOMAIN v

KV(key, value) == [k |-> key, v |-> value]

\* bool(v) of an optional dict argument (`options if options else ...`).
TruthyDict(v) == IsDict(v) /\ v.dict # <<>>

\* The four structural track types, in the insertion order of track_count.
TrackTypes == <<"video", "audio", "subtitles", "buttons">>

TrackRecord(id, type, language) ==
    [id |-> id, type |-> type, language |-> language, codec_id |-> "codec"]

\* What `mkvmerge -i <file> -F json` can answer: mkvmerge numbers the tracks of
\* a file 0, 1, 2, ... in the order of its `tracks` array; the last answer has
\* no `tracks` array at all.
IdentifyVideoAudio ==
    [has_tracks |-> TRUE,
     tracks |-> << TrackRecord(0, "video", None),
                   TrackRecord(1, "audio", PyStr("jpn")) >>]

IdentifySubtitlesButtonsAudio ==
    [has_tracks |-> TRUE,
     tracks |-> << TrackRecord(0, "subtitles", PyStr("eng")),
                   TrackRecord(1, "buttons", None),
                   TrackRecord(2, "audio", PyStr("jpn")) >>]

IdentifyOutputs ==
    { [has_tracks |-> TRUE, tracks |-> <<>>],
      IdentifyVideoAudio,
      IdentifySubtitlesButtonsAudio,
      [has_tracks |-> FALSE, tracks |-> <<>>] }

\* The track numbers a caller declares.
TrackIds == <<0, 1, 2, -1>>

\* The `options` argument of MkvSourceTrack.
TrackOptionArgs ==
    { None,
      PyDict(<< KV("language", PyStr("eng")), KV("default-track", None) >>),
      PyDict(<< KV("default-track", PyStr("yes")), KV("forced-track", PyBool(FALSE)),
                KV("sync", PyInt(0)) >>) }

\* The `options` argument of MkvSource.
SourceOptionArgs ==
    { None,
      PyDict(<< KV("no-chapters", None), KV("_copy-video-tracks", PyBool(TRUE)),
                KV("chapter-language", PyStr("eng")) >>),
      PyDict(<< KV("_copy-subtitles-tracks", None), KV("no-attachments", PyBool(TRUE)),
                KV("_note", PyStr("x")), KV("chapter-sync", PyInt(0)) >>) }

SourceFiles == {"test1.mkv", "/media/test2.mkv"}

\* What the callers of a merge job of Spec pass.
JobSourceArgs ==
    { [filename |-> "test1.mkv", options |-> None, info |-> IdentifyVideoAudio],
      [filename |-> "/media/test2.mkv",
       options |-> PyDict(<< KV("no-chapters", None), KV("_copy-buttons-tracks", PyBool(TRUE)) >>),
       info |-> IdentifySubtitlesButtonsAudio] }

JobTrackArgs ==
    << [track |-> 0, options |-> None],
       [track |-> 2, options |-> PyDict(<< KV("language", PyStr("jpn")) >>)] >>

JobAttachmentArgs ==
    { [filename |-> "fonts/test.otf", name |-> None, mimetype |-> None],
      [filename |-> "/fonts/test.ttf", name |-> PyStr("Font"), mimetype |-> PyStr("font/ttf")] }

OutputFiles == {"output.mkv"}

GlobalOptionArgs ==
    { <<>>,
      << KV("no-global-tags", None), KV("title", PyStr("Awesome Newly Muxed Video")) >> }

TrackOrderOverrides ==
    { <<>>, << "1:0" >>, << "0:0", "1:1", "0:2", "1:3" >> }

\* -------------------------------------------------------- MkvSourceTrack

\* MkvSourceTrack.__init__; oid is the identity of the object.
MkvSourceTrack(oid, track, options) ==
    [oid |-> oid, track |-> track,
     options |-> IF TruthyDict(options) THEN options.dict ELSE <<>>]

\* ------------------------------------------------------------- MkvSource

\* MkvSource.__init__ with verify_files left False; info is what get_info
\* read from the identify call.
MkvSource(filename, options, info) ==
    [source_file |-> filename,
     options |-> IF TruthyDict(options) THEN options.dict ELSE <<>>,
     tracks |-> <<>>,
     info |-> info]

\* ListRemove, had remove_track answered the ValueError by dropping the last
\* declared track.
ListRemoveOrLast(list, oid) ==
    LET at == { j \in 1..Len(list) : list[j].oid = oid }
        first == CHOOSE j \in at : \A k \in at : j <= k
        drop == IF at # {} THEN first ELSE Len(list)
    IN [j \in 1..(IF list = <<>> THEN 0 ELSE Len(list) - 1) |->
           IF j < drop THEN list[j] ELSE list[j + 1]]

\* list.remove(x): the list without the first element that is x.
RECURSIVE ListRemove(_, _)
ListRemove(list, oid) ==
    IF list = <<>> THEN <<>>
    ELSE IF Head(list).oid = oid THEN Tail(list)
    ELSE <<Head(list)>> \o ListRemove(Tail(list), oid)

\* TrackOptionTokens, had it taken every falsy value for an absent one.
RECURSIVE TrackOptionTokensTruthy(_, _)
TrackOptionTokensTruthy(track, options) ==
    IF options = <<>> THEN <<>>
    ELSE LET k == Head(options).k
             v == Head(options).v
         IN (IF Truthy(v)
             THEN << PyStr("--" \o k), PyStr(ToString(track) \o ":" \o Format(v)) >>
             ELSE << PyStr("--" \o k) >>)
            \o TrackOptionTokensTruthy(track, Tail(options))

\* The options of one declared track (the inner loop of generate_options).
RECURSIVE TrackOptionTokens(_, _)
TrackOptionTokens(track, options) ==
    IF options = <<>> THEN <<>>
    ELSE LET k == Head(options).k
             v == Head(options).v
         IN (IF ~IsNone(v)
             THEN << PyStr("--" \o k), PyStr(ToString(track) \o ":" \o Format(v)) >>
             ELSE << PyStr("--" \o k) >>)
            \o TrackOptionTokens(track, Tail(options))

\* self.info.tracks[track.track].type, with what it raises.
TrackTypeLookup(info, track) ==
    IF ~info.has_tracks THEN [status |-> "exit60", type |-> ""]
    ELSE IF ~ValidIndex(info.tracks, track) THEN [status |-> "IndexError", type |-> ""]
    ELSE [status |-> "ok", type |-> ListGet(info.tracks, track).type]

\* The loop of generate_options over the declared tracks: it fills track_count
\* and command, and stops at the first track that cannot be looked up.
RECURSIVE TrackLoop(_, _, _)
TrackLoop(src, tracks, acc) ==
    IF tracks = <<>> THEN acc
    ELSE LET t == Head(tracks)
             found == TrackTypeLookup(src.info, t.track)
         IN IF found.status # "ok"
            THEN [acc EXCEPT !.status = found.status]
            ELSE TrackLoop(src, Tail(tracks),
                     [acc EXCEPT !.track_count[found.type] = Append(@, t.track),
                                 !.command = @ \o TrackOptionTokens(t.track, t.options)])

\* The name of the inclusion directive of a type: subtitles and buttons lose
\* their last letter.
DirectiveName(k) == IF k \in {"subtitles", "buttons"} THEN SubSeq(k, 1, Len(k) - 1) ELSE k

\* TypeDirective without the keep-all options.
TypeDirectiveIgnoringKeepAll(src, k, v) ==
    IF v = <<>> THEN << PyStr("--no-" \o k) >>
    ELSE << PyStr("--" \o DirectiveName(k) \o "-tracks"),
            PyStr(Join(",", [i \in 1..Len(v) |-> ToString(v[i])])) >>

\* TypeDirective, had it listed an id declared twice once.
TypeDirectiveDistinctIds(src, k, v) ==
    LET ids == { v[i] : i \in 1..Len(v) }
        IsFirst(i) == \A m \in 1..(i - 1) : v[m] # v[i]
        RECURSIVE Firsts(_)
        Firsts(i) == IF i > Len(v) THEN <<>>
                     ELSE (IF IsFirst(i) THEN << ToString(v[i]) >> ELSE <<>>) \o Firsts(i + 1)
    IN IF HasKey(src.options, "_copy-" \o k \o "-tracks") THEN <<>>
       ELSE IF v = <<>> THEN << PyStr("--no-" \o k) >>
       ELSE << PyStr("--" \o DirectiveName(k) \o "-tracks"), PyStr(Join(",", Firsts(1))) >>

\* The directive of one structural type.
TypeDirective(src, k, v) ==
    IF HasKey(src.options, "_copy-" \o k \o "-tracks") THEN <<>>
    ELSE IF v = <<>> THEN << PyStr("--no-" \o k) >>
    ELSE << PyStr("--" \o DirectiveName(k) \o "-tracks"),
            PyStr(Join(",", [i \in 1..Len(v) |-> ToString(v[i])])) >>

\* The loop over track_count.
RECURSIVE Directives(_, _, _)
Directives(src, types, track_count) ==
    IF types = <<>> THEN <<>>
    ELSE TypeDirective(src, Head(types), track_count[Head(types)])
         \o Directives(src, Tail(types), track_count)

\* The loop over the source's own options.
RECURSIVE ScalarOptionTokens(_)
ScalarOptionTokens(options) ==
    IF options = <<>> THEN <<>>
    ELSE LET k == Head(options).k
             v == Head(options).v
         IN (IF Head(k) = "_" THEN <<>>
             ELSE IF IsNone(v) \/ IsBool(v) THEN << PyStr("--" \o k) >>
             ELSE << PyStr("--" \o k), v >>)
            \o ScalarOptionTokens(Tail(options))

\* The grouped file path that ends the fragment.
FileGroup(src) == << PyStr("("), PyStr(Absolute(src.source_file)), PyStr(")") >>

\* generate_options, had it returned command + pc.
generate_options_group_first(src) ==
    LET looped == TrackLoop(src, src.tracks,
                      [status |-> "ok",
                       track_count |-> [k \in {TrackTypes[i] : i \in 1..Len(TrackTypes)} |-> <<>>],
                       command |-> <<>>])
        command == looped.command \o FileGroup(src)
        pc == Directives(src, TrackTypes, looped.track_count)
              \o ScalarOptionTokens(src.options)
    IN IF looped.status # "ok"
       THEN [status |-> looped.status, value |-> <<>>]
       ELSE [status |-> "ok", value |-> command \o pc]

\* MkvSource.generate_options: [status, value], value the tokens when status
\* is "ok".
generate_options(src) ==
    LET looped == TrackLoop(src, src.tracks,
                      [status |-> "ok",
                       track_count |-> [k \in {TrackTypes[i] : i \in 1..Len(TrackTypes)} |-> <<>>],
                       command |-> <<>>])
        command == looped.command \o FileGroup(src)
        pc == Directives(src, TrackTypes, looped.track_count)
              \o ScalarOptionTokens(src.options)
    IN IF looped.status # "ok"
       THEN [status |-> looped.status, value |-> <<>>]
       ELSE [status |-> "ok", value |-> pc \o command]

\* --------------------------------------------------------- MkvAttachment

\* MkvAttachment.__init__ with verify_files left False; name and mimetype are
\* None or a string.
MkvAttachment(filename, name, mimetype) ==
    [filename |-> filename,
     name |-> IF Truthy(name) THEN name ELSE PyStr(BaseName(filename)),
     mimetype |-> mimetype]

\* MkvAttachment.generate_options
attachment_generate_options(att) ==
    << PyStr("--attachment-name"), att.name,
       PyStr("--attach-file"), PyStr(Absolute(att.filename)) >>
    \o (IF Truthy(att.mimetype)
        THEN << PyStr("--attachment-mime-type"), att.mimetype >>
        ELSE <<>>)

\* matroska.MkvAttachment.__init__(name, mime_type, filename) called with the
\* keyword arguments args: the three parameters have no default, so a call
\* that leaves one out raises TypeError and makes no object.
matroska_MkvAttachment(args) ==
    IF {"name", "mime_type", "filename"} \subseteq DOMAIN args
    THEN [status |-> "ok",
          value |-> [name |-> args.name, mime_type |-> args.mime_type,
                     filename |-> args.filename]]
    ELSE [status |-> "TypeError", value |-> <<>>]

\* matroska.MkvAttachment.generate_options
matroska_attachment_generate_options(att) ==
    << PyStr("--attachment-name"), att.name,
       PyStr("--attachment-mime-type"), att.mime_type,
       PyStr("--attach-file"), PyStr(Absolute(att.filename)) >>

\* -------------------------------------------------------------- MkvMerge

\* SourceOrder, had it counted the sources from 1.
RECURSIVE SourceOrderFromOne(_, _)
SourceOrderFromOne(i, tracks) ==
    IF tracks = <<>> THEN <<>>
    ELSE << ToString(i + 1) \o ":" \o ToString(Head(tracks).track) >>
         \o SourceOrderFromOne(i, Tail(tracks))

\* The inner loop of track_order: the tracks of source number i.
RECURSIVE SourceOrder(_, _)
SourceOrder(i, tracks) ==
    IF tracks = <<>> THEN <<>>
    ELSE << ToString(i) \o ":" \o ToString(Head(tracks).track) >>
         \o SourceOrder(i, Tail(tracks))

\* The outer loop of track_order, from source number i (0-based) on.
RECURSIVE DerivedOrder(_, _)
DerivedOrder(srcs, i) ==
    IF i >= Len(srcs) THEN <<>>
    ELSE SourceOrder(i, srcs[i + 1].tracks) \o DerivedOrder(srcs, i + 1)

\* track_order without the override.
track_order_derived(srcs, override) == DerivedOrder(srcs, 0)

\* MkvMerge.track_order: the override when it is a non-empty list, the derived
\* order otherwise.
track_order(srcs, override) ==
    IF override # <<>> THEN override ELSE DerivedOrder(srcs, 0)

\* The loop of generate_command over the global options.
RECURSIVE GlobalOptionTokens(_)
GlobalOptionTokens(options) ==
    IF options = <<>> THEN <<>>
    ELSE LET k == Head(options).k
             v == Head(options).v
         IN (IF ~Truthy(v)
             THEN << PyStr("--" \o k) >>
             ELSE << PyStr("--" \o k), PyStr(Format(v)) >>)
            \o GlobalOptionTokens(Tail(options))

\* The loop of generate_command over the sources; it stops at the first source
\* whose generate_options fails.
RECURSIVE SourcesLoop(_, _)
SourcesLoop(srcs, acc) ==
    IF srcs = <<>> THEN acc
    ELSE LET r == generate_options(Head(srcs))
         IN IF r.status # "ok"
            THEN [status |-> r.status, value |-> <<>>]
            ELSE SourcesLoop(Tail(srcs), [acc EXCEPT !.value = @ \o r.value])

\* The loop of generate_command over the attachments.
RECURSIVE AttachmentsLoop(_)
AttachmentsLoop(atts) ==
    IF atts = <<>> THEN <<>>
    ELSE attachment_generate_options(Head(atts)) \o AttachmentsLoop(Tail(atts))

\* generate_command, had it put the attachments before the sources.
generate_command_attachments_first(srcs, atts, override, out, options) ==
    IF IsNone(out) THEN [status |-> "AttributeError", value |-> <<>>]
    ELSE LET head == << PyStr(MKVMERGE_PATH), PyStr("--output"), PyStr(Absolute(out.str)) >>
                     \o GlobalOptionTokens(options) \o AttachmentsLoop(atts)
             withSources == SourcesLoop(srcs, [status |-> "ok", value |-> head])
         IN IF withSources.status # "ok" THEN withSources
            ELSE [status |-> "ok",
                  value |-> withSources.value
                            \o << PyStr("--track-order"),
                                  PyStr(Join(",", track_order(srcs, override))) >>]

\* MkvMerge.generate_command (as_string False): [status, value].
generate_command(srcs, atts, override, out, options) ==
    IF IsNone(out) THEN [status |-> "AttributeError", value |-> <<>>]
    ELSE LET head == << PyStr(MKVMERGE_PATH), PyStr("--output"), PyStr(Absolute(out.str)) >>
                     \o GlobalOptionTokens(options)
             withSources == SourcesLoop(srcs, [status |-> "ok", value |-> head])
         IN IF withSources.status # "ok" THEN withSources
            ELSE [status |-> "ok",
                  value |-> withSources.value \o AttachmentsLoop(atts)
                            \o << PyStr("--track-order"),
                                  PyStr(Join(",", track_order(srcs, override))) >>]

\* ------------------------------------------------------------ operations

\* What an operation that returns nothing leaves behind.
Returned(op) == [op |-> op, status |-> "ok", value |-> <<>>]

\* The identities of the MkvSourceTrack objects declared somewhere.
Oids ==
    UNION { { sources[i].tracks[j].oid : j \in 1..Len(sources[i].tracks) } :
            i \in 1..Len(sources) }

\* The identity of a newly made object.
FreshOid == Cardinality(Oids) + 1

\* An identity says only which declarations are the same object: the objects
\* are numbered 1, 2, ... in the order they are first met in the sources.
Renumbered(srcs) ==
    LET met == Flatten([i \in 1..Len(srcs) |->
                   [j \in 1..Len(srcs[i].tracks) |-> srcs[i].tracks[j].oid]])
        First(oid) == CHOOSE k \in 1..Len(met) :
                          met[k] = oid /\ \A m \in 1..(k - 1) : met[m] # oid
        Number(oid) == Cardinality({ met[k] : k \in 1..First(oid) })
    IN [i \in 1..Len(srcs) |->
           [srcs[i] EXCEPT !.tracks =
               [j \in 1..Len(srcs[i].tracks) |->
                   [srcs[i].tracks[j] EXCEPT !.oid = Number(srcs[i].tracks[j].oid)]]]]

\* The objects a merge job holds.
Size ==
    LET RECURSIVE Declared(_)
        Declared(i) == IF i > Len(sources) THEN 0
                       ELSE Len(sources[i].tracks) + Declared(i + 1)
    IN Len(sources) + Declared(1) + Len(attachments)

\* MkvMerge.add_source(MkvSource(filename, options)).
AddSource(filename, options, info) ==
    /\ sources' = Append(sources, MkvSource(filename, options, info))
    /\ result' = Returned("add_source")
    /\ UNCHANGED <<attachments, track_order_override, output, global_options, extractVars, files>>

\* sources[i].add_track(track), i counted from 1.
add_track(i, track) ==
    /\ sources' = Renumbered([sources EXCEPT ![i].tracks = Append(@, track)])
    /\ result' = Returned("add_track")
    /\ UNCHANGED <<attachments, track_order_override, output, global_options, extractVars, files>>

\* add_track of a newly made MkvSourceTrack.
AddNewTrack(i, track, options) ==
    add_track(i, MkvSourceTrack(FreshOid, track, options))

\* add_track of an object that is declared already (on source j, at place p).
AddTrackAgain(i, j, p) ==
    add_track(i, sources[j].tracks[p])

\* sources[i].remove_track(track), track the object of identity oid.
RemoveTrack(i, oid) ==
    /\ sources' = Renumbered([sources EXCEPT ![i].tracks = ListRemove(@, oid)])
    /\ result' = Returned("remove_track")
    /\ UNCHANGED <<attachments, track_order_override, output, global_options, extractVars, files>>

\* sources[i].generate_options()
GenerateOptions(i) ==
    /\ result' = [op |-> "generate_options"] @@ generate_options(sources[i])
    /\ UNCHANGED <<mergeVars, extractVars, files>>

\* MkvMerge.add_attachment(MkvAttachment(filename, name, mimetype)).
AddAttachment(filename, name, mimetype) ==
    /\ attachments' = Append(attachments, MkvAttachment(filename, name, mimetype))
    /\ result' = Returned("add_attachment")
    /\ UNCHANGED <<sources, track_order_override, output, global_options, extractVars, files>>

\* m.output = Path(filename)
SetOutput(filename) ==
    /\ output' = PyStr(filename)
    /\ output' # output
    /\ result' = Returned("setattr")
    /\ UNCHANGED <<sources, attachments, track_order_override, global_options, extractVars, files>>

\* m.global_options = options
SetGlobalOptions(options) ==
    /\ global_options' = options
    /\ global_options' # global_options
    /\ result' = Returned("setattr")
    /\ UNCHANGED <<sources, attachments, track_order_override, output, extractVars, files>>

\* m.track_order_override = order
SetTrackOrderOverride(order) ==
    /\ track_order_override' = order
    /\ track_order_override' # track_order_override
    /\ result' = Returned("setattr")
    /\ UNCHANGED <<sources, attachments, output, global_options, extractVars, files>>

\* MkvMerge.generate_command()
GenerateCommand ==
    /\ result' = [op |-> "generate_command"]
                 @@ generate_command(sources, attachments, track_order_override,
                                     output, global_options)
    /\ UNCHANGED <<mergeVars, extractVars, files>>

\* m.track_order
TrackOrder ==
    /\ result' = [op |-> "track_order", status |-> "ok",
                  value |-> track_order(sources, track_order_override)]
    /\ UNCHANGED <<mergeVars, extractVars, files>>

\* ------------------------------------------------------------------- mux

\* A file that was opened for writing and not written to.
EmptyFile == [empty |-> TRUE]

\* json.dump(tokens, f): the document a file holds.
JsonDump(tokens) == [json |-> tokens]

\* open(name, "w"), then write: the file is made or replaced.
WriteFile(fs, name, content) ==
    { r \in fs : r.name # name } \cup { [name |-> name, content |-> content] }

\* Path(name).unlink()
Unlink(fs, name) == { r \in fs : r.name # name }

\* NamedTemporaryFile(mode="w", delete=False).name: a name no file has; of
\* the free names the first stands for any.
TempName(fs) ==
    LET Taken(n) == \E r \in fs : r.name = "/tmp/tmp" \o ToString(n)
    IN "/tmp/tmp" \o ToString(CHOOSE n \in 1..(Cardinality(fs) + 1) :
                                  ~Taken(n) /\ \A m \in 1..(n - 1) : Taken(m))

\* MkvMerge.mux(delete_temp, filename) on the files fs, the external tool
\* exiting with returncode: [status, value, files, events], events being what
\* the call did to the world, in order.
mux(srcs, atts, override, out, options, fs, delete_temp, filename, returncode) ==
    LET name == IF ~Truthy(filename) THEN TempName(fs) ELSE "output.json"
        opened == [ev |-> "open", file |-> name]
        command == generate_command(srcs, atts, override, out, options)
    IN IF command.status # "ok"
       THEN [status |-> command.status, value |-> <<>>,
             files |-> WriteFile(fs, name, EmptyFile), events |-> << opened >>]
       ELSE LET content == JsonDump(Tail(command.value))
                written == WriteFile(fs, name, content)
                ran == [ev |-> "run", argv |-> << MKVMERGE_PATH, "@" \o name >>,
                        returncode |-> returncode]
            IN [status |-> "ok", value |-> returncode,
                files |-> IF delete_temp THEN Unlink(written, name) ELSE written,
                events |-> << opened, [ev |-> "write", file |-> name, content |-> content], ran >>
                           \o (IF delete_temp
                               THEN << [ev |-> "unlink", file |-> name] >> ELSE <<>>)]

\* The most files left behind by the runs of a job.
MaxMuxFiles == 2

\* The file names a caller of mux supplies (None: none) and the exit statuses
\* of the external tool.
MuxFilenames == {None, PyStr("options.json")}

ReturnCodes == {0, 2}

\* MkvMerge.mux(delete_temp, filename)
Mux(delete_temp, filename, returncode) ==
    LET r == mux(sources, attachments, track_order_override, output, global_options,
                 files, delete_temp, filename, returncode)
    IN /\ \/ Cardinality(files) < MaxMuxFiles
          \/ Truthy(filename) /\ \E f \in files : f.name = "output.json"
       /\ files' = r.files
       /\ result' = [op |-> "mux", status |-> r.status, value |-> r.value,
                     events |-> r.events,
                     args |-> [delete_temp |-> delete_temp, filename |-> filename]]
       /\ UNCHANGED <<mergeVars, extractVars>>

\* ---------------------------------------------- the runs of a job: SpecMux

InitMux ==
    /\ sources = <<>>
    /\ attachments = <<>>
    /\ track_order_override = <<>>
    /\ output = None
    /\ global_options = <<>>
    /\ data = None
    /\ mkvinfo = None
    /\ files = {}
    /\ result = Returned("init")

NextMux ==
    \/ \E a \in JobSourceArgs :
           sources = <<>> /\ AddSource(a.filename, a.options, a.info)
    \/ \E n \in 1..Len(JobTrackArgs) :
           /\ Len(sources) = 1
           /\ sources[1].tracks = <<>>
           /\ AddNewTrack(1, JobTrackArgs[n].track, JobTrackArgs[n].options)
    \/ \E f \in OutputFiles : SetOutput(f)
    \/ \E o \in GlobalOptionArgs : SetGlobalOptions(o)
    \/ \E d \in BOOLEAN, f \in MuxFilenames, rc \in ReturnCodes : Mux(d, f, rc)

SpecMux == InitMux /\ [][NextMux]_vars

\* ------------------------------------------------------ load_from_object

\* The identify command MkvSource.get_info runs for a file.
IdentifyCommand(filename) == << MKVMERGE_PATH, "-i", filename, "-F", "json" >>

\* getattr(json_data, key, default) of an optional key of a configuration.
GetAttr(cfg, key, default) == IF key \in DOMAIN cfg THEN cfg[key] ELSE default

\* The loop of load_from_object over json_data.tracks: each entry makes a new
\* MkvSourceTrack and adds it to sources[entry.source], a list index; n is the
\* number of objects made so far.  [status, sources]: the loop stops at the
\* entry whose index is out of range, with the tracks added so far.
RECURSIVE LoadTracks(_, _, _)
LoadTracks(srcs, entries, n) ==
    IF entries = <<>> THEN [status |-> "ok", sources |-> srcs]
    ELSE LET t == Head(entries)
         IN IF ~ValidIndex(srcs, t.source)
            THEN [status |-> "IndexError", sources |-> srcs]
            ELSE LET i == IF t.source >= 0 THEN t.source + 1
                          ELSE Len(srcs) + t.source + 1
                 IN LoadTracks([srcs EXCEPT ![i].tracks =
                                    Append(@, MkvSourceTrack(n + 1, t.track, t.options))],
                               Tail(entries), n + 1)

\* load_from_object that validates after it made the sources.
merge_load_validating_late(cfg, valid, job) ==
    IF valid THEN [job EXCEPT !.status = "ok"]
    ELSE [job EXCEPT !.status = "ValidationError",
                     !.sources = [i \in 1..Len(cfg.sources) |->
                                     MkvSource(cfg.sources[i].filename,
                                               cfg.sources[i].options,
                                               cfg.sources[i].info)],
                     !.spawned = [i \in 1..Len(cfg.sources) |->
                                     IdentifyCommand(cfg.sources[i].filename)]]

\* load_from_object that adds what it loads to what the job holds.
merge_load_accumulating(cfg, valid, job) ==
    IF ~valid THEN [job EXCEPT !.status = "ValidationError"]
    ELSE LET made == [i \in 1..Len(cfg.sources) |->
                         MkvSource(cfg.sources[i].filename, cfg.sources[i].options,
                                   cfg.sources[i].info)]
             loaded == LoadTracks(made, cfg.tracks, Cardinality(Oids))
         IN [status |-> loaded.status,
             sources |-> Renumbered(job.sources \o loaded.sources),
             attachments |-> job.attachments
                 \o [i \in 1..Len(GetAttr(cfg, "attachments", <<>>)) |->
                        MkvAttachment(cfg.attachments[i].filename,
                                      cfg.attachments[i].name,
                                      cfg.attachments[i].mimetype)],
             track_order_override |-> job.track_order_override
                 \o [i \in 1..Len(cfg.tracks) |->
                        ToString(cfg.tracks[i].source) \o ":" \o ToString(cfg.tracks[i].track)],
             output |-> PyStr(cfg.output_file),
             global_options |-> GetAttr(cfg, "options", <<>>),
             spawned |-> [i \in 1..Len(cfg.sources) |->
                             IdentifyCommand(cfg.sources[i].filename)]]

\* MkvMerge.load_from_object(cfg) on a job (its five attributes, status and
\* spawned as it starts: "ok" and none); valid is the verdict of
\* jsonschema.validate on cfg.  The job as the call leaves it, with the status
\* of the call and the external commands it ran.  A configuration names no
\* attachment directories.
merge_load_from_object(cfg, valid, job) ==
    IF ~valid THEN [job EXCEPT !.status = "ValidationError"]
    ELSE LET made == [i \in 1..Len(cfg.sources) |->
                         MkvSource(cfg.sources[i].filename, cfg.sources[i].options,
                                   cfg.sources[i].info)]
             spawned == [i \in 1..Len(cfg.sources) |->
                            IdentifyCommand(cfg.sources[i].filename)]
             loaded == LoadTracks(made, cfg.tracks, 0)
         IN IF loaded.status # "ok"
            THEN [job EXCEPT !.status = loaded.status,
                             !.sources = Renumbered(loaded.sources),
                             !.spawned = spawned]
            ELSE [status |-> "ok",
                  sources |-> Renumbered(loaded.sources),
                  attachments |->
                      [i \in 1..Len(GetAttr(cfg, "attachments", <<>>)) |->
                          MkvAttachment(cfg.attachments[i].filename,
                                        cfg.attachments[i].name,
                                        cfg.attachments[i].mimetype)],
                  track_order_override |->
                      [i \in 1..Len(cfg.tracks) |->
                          ToString(cfg.tracks[i].source) \o ":"
                              \o ToString(cfg.tracks[i].track)],
                  output |-> PyStr(cfg.output_file),
                  global_options |-> GetAttr(cfg, "options", <<>>),
                  spawned |-> spawned]

\* MkvMerge.load_from_object(cfg)
LoadMerge(cfg, valid) ==
    LET r == merge_load_from_object(cfg, valid,
                 [status |-> "ok", sources |-> sources, attachments |-> attachments,
                  track_order_override |-> track_order_override, output |-> output,
                  global_options |-> global_options, spawned |-> <<>>])
    IN /\ sources' = r.sources
       /\ attachments' = r.attachments
       /\ track_order_override' = r.track_order_override
       /\ output' = r.output
       /\ global_options' = r.global_options
       /\ result' = [op |-> "load_from_object", status |-> r.status, value |-> <<>>,
                     spawned |-> r.spawned, args |-> cfg]
       /\ UNCHANGED <<extractVars, files>>

\* ------------------------------------------------- one source: SpecSource

\* A source as MkvSource.__init__ leaves it, in a job that holds only it.
InitSource ==
    /\ \E f \in SourceFiles, o \in SourceOptionArgs, info \in IdentifyOutputs :
           sources = << MkvSource(f, o, info) >>
    /\ attachments = <<>>
    /\ track_order_override = <<>>
    /\ output = None
    /\ global_options = <<>>
    /\ data = None
    /\ mkvinfo = None
    /\ files = {}
    /\ result = Returned("init")

NextSource ==
    \/ \E n \in 1..Len(TrackIds), o \in TrackOptionArgs :
           Len(sources[1].tracks) < MaxTracks /\ AddNewTrack(1, TrackIds[n], o)
    \/ \E p \in 1..Len(sources[1].tracks) :
           Len(sources[1].tracks) < MaxTracks /\ AddTrackAgain(1, 1, p)
    \/ \E oid \in Oids \cup {FreshOid} : RemoveTrack(1, oid)
    \/ GenerateOptions(1)

SpecSource == InitSource /\ [][NextSource]_vars

\* ------------------------------------------- one attachment: SpecAttachment

\* The files attached.
AttachmentFiles == {"font.ttf", "test.otf", "fonts/test.otf", "/fonts/test.ttf", "cover.jpg"}

\* The names and MIME types given to an attachment: None stands for none.
AttachmentNames == {None, PyStr("Font")}

AttachmentMimeTypes == {None, PyStr("font/ttf")}

\* The keyword arguments of a call of matroska.MkvAttachment: all three, or
\* the filename alone.
MatroskaAttachmentArgs ==
    { [name |-> n, mime_type |-> m, filename |-> f] :
          n \in AttachmentNames, m \in AttachmentMimeTypes, f \in AttachmentFiles }
    \cup { [filename |-> f] : f \in AttachmentFiles }

\* a = mkvmerge.MkvAttachment(filename, name, mimetype): the attachment at hand.
NewAttachment(filename, name, mimetype) ==
    /\ attachments' = << MkvAttachment(filename, name, mimetype) >>
    /\ result' = Returned("MkvAttachment")
    /\ UNCHANGED <<sources, track_order_override, output, global_options, extractVars, files>>

\* a = matroska.MkvAttachment(**args): the attachment at hand, unless the call
\* raises.
NewMatroskaAttachment(args) ==
    LET r == matroska_MkvAttachment(args)
    IN /\ attachments' = IF r.status = "ok" THEN << r.value >> ELSE attachments
       /\ result' = [op |-> "matroska.MkvAttachment", status |-> r.status, value |-> <<>>]
       /\ UNCHANGED <<sources, track_order_override, output, global_options, extractVars, files>>

\* a.generate_options() of the attachment at hand, by the class it is of.
AttachmentOptions ==
    /\ attachments # <<>>
    /\ result' = [op |-> "attachment_generate_options", status |-> "ok",
                  value |-> IF "mime_type" \in DOMAIN attachments[1]
                            THEN matroska_attachment_generate_options(attachments[1])
                            ELSE attachment_generate_options(attachments[1])]
    /\ UNCHANGED <<mergeVars, extractVars, files>>

InitAttachment ==
    /\ sources = <<>>
    /\ attachments = <<>>
    /\ track_order_override = <<>>
    /\ output = None
    /\ global_options = <<>>
    /\ data = None
    /\ mkvinfo = None
    /\ files = {}
    /\ result = Returned("init")

NextAttachment ==
    \/ \E f \in AttachmentFiles, n \in AttachmentNames, m \in AttachmentMimeTypes :
           NewAttachment(f, n, m)
    \/ \E args \in MatroskaAttachmentArgs : NewMatroskaAttachment(args)
    \/ AttachmentOptions

SpecAttachment == InitAttachment /\ [][NextAttachment]_vars

\* ---------------------------------------------------------------- MkvInfo

\* MkvInfo.process_info: the MkvInfoTrack list of an identify answer that has
\* a `tracks` array.
process_info(info) ==
    [i \in 1..Len(info.tracks) |->
        [track_id |-> info.tracks[i].id,
         track_type |-> info.tracks[i].type,
         track_lang |-> info.tracks[i].language,
         track_codec |-> info.tracks[i].codec_id]]

\* get_tracks with the language filter applied to all the tracks instead of to
\* the tracks the type filter kept.
get_tracks_language_of_all(tracks, track_type, language) ==
    IF ~Truthy(track_type) /\ ~Truthy(language) THEN tracks
    ELSE LET TypeIs(t) == t.track_type = track_type.str
             LangIs(t) == t.track_lang = language
         IN IF Truthy(language) THEN SelectSeq(tracks, LangIs)
            ELSE SelectSeq(tracks, TypeIs)

\* MkvInfo.get_tracks; track_type and language are None or a string.
get_tracks(tracks, track_type, language) ==
    IF ~Truthy(track_type) /\ ~Truthy(language) THEN tracks
    ELSE LET TypeIs(t) == t.track_type = track_type.str
             LangIs(t) == t.track_lang = language
             byType == IF Truthy(track_type) THEN SelectSeq(tracks, TypeIs) ELSE tracks
         IN IF Truthy(language) THEN SelectSeq(byType, LangIs) ELSE byType

\* ------------------------------------------------------------- Mkvextract

\* d[key] of a tracks entry as a keyword argument of get_tracks: None when the
\* key is not passed.
Keyword(d, key) == IF key \in DOMAIN d THEN PyStr(d[key]) ELSE None

\* ResolveEntry with a place that is not among the filtered tracks looked up
\* among all the tracks instead.
ResolveEntryFallingBack(info, d) ==
    LET filtered == ({"track_type", "language"} \cap DOMAIN d) # {}
    IN IF IsNone(info) THEN [status |-> "AttributeError", value |-> <<>>]
       ELSE LET kept == IF filtered
                        THEN get_tracks(info.tracks, Keyword(d, "track_type"),
                                        Keyword(d, "language"))
                        ELSE info.tracks
                list == IF "id" \in DOMAIN d /\ ~ValidIndex(kept, d.id)
                        THEN info.tracks ELSE kept
            IN IF "id" \notin DOMAIN d THEN [status |-> "BoxKeyError", value |-> <<>>]
               ELSE IF ~ValidIndex(list, d.id) THEN [status |-> "IndexError", value |-> <<>>]
               ELSE IF "filename" \notin DOMAIN d
                    THEN [status |-> "BoxKeyError", value |-> <<>>]
               ELSE [status |-> "ok",
                     value |-> << PyStr(ToString(ListGet(list, d.id).track_id)
                                        \o ":" \o d.filename) >>]

\* The body of the loop of process_track_mode: the token of one entry, or what
\* it raises.
ResolveEntry(info, d) ==
    LET filtered == ({"track_type", "language"} \cap DOMAIN d) # {}
    IN IF IsNone(info) THEN [status |-> "AttributeError", value |-> <<>>]
       ELSE LET list == IF filtered
                        THEN get_tracks(info.tracks, Keyword(d, "track_type"),
                                        Keyword(d, "language"))
                        ELSE info.tracks
            IN IF "id" \notin DOMAIN d THEN [status |-> "BoxKeyError", value |-> <<>>]
               ELSE IF ~ValidIndex(list, d.id) THEN [status |-> "IndexError", value |-> <<>>]
               ELSE IF "filename" \notin DOMAIN d
                    THEN [status |-> "BoxKeyError", value |-> <<>>]
               ELSE [status |-> "ok",
                     value |-> << PyStr(ToString(ListGet(list, d.id).track_id)
                                        \o ":" \o d.filename) >>]

\* Mkvextract.process_track_mode: it stops at the first entry that raises.
RECURSIVE process_track_mode(_, _, _)
process_track_mode(info, entries, acc) ==
    IF entries = <<>> THEN [status |-> "ok", value |-> acc]
    ELSE LET r == ResolveEntry(info, Head(entries))
         IN IF r.status # "ok" THEN r
            ELSE process_track_mode(info, Tail(entries), acc \o r.value)

\* The tokens of the entries of attachments, timestamps and cues.
RECURSIVE IdFileTokens(_)
IdFileTokens(entries) ==
    IF entries = <<>> THEN <<>>
    ELSE << PyStr(ToString(Head(entries).id) \o ":" \o Head(entries).filename) >>
         \o IdFileTokens(Tail(entries))

\* ModesLoop with every mode under the label of its configuration key.
RECURSIVE ModesLoopKeepingLabels(_, _, _)
ModesLoopKeepingLabels(info, items, command) ==
    IF items = <<>> THEN [status |-> "ok", value |-> command]
    ELSE LET mode == Head(items).k
             v == Head(items).v
         IN IF mode = "source" THEN ModesLoopKeepingLabels(info, Tail(items), command)
            ELSE IF mode = "tracks"
                 THEN LET r == process_track_mode(info, v.list, << PyStr("tracks") >>)
                      IN IF r.status # "ok" THEN r
                         ELSE ModesLoopKeepingLabels(info, Tail(items), command \o r.value)
            ELSE IF mode \in {"attachments", "timestamps", "cues"}
                 THEN ModesLoopKeepingLabels(info, Tail(items),
                          command \o << PyStr(mode) >> \o IdFileTokens(v.list))
            ELSE IF mode \in {"chapters", "tags"}
                 THEN ModesLoopKeepingLabels(info, Tail(items),
                                             command \o << PyStr(mode), v >>)
            ELSE ModesLoopKeepingLabels(info, Tail(items), command)

\* The loop of Mkvextract.generate_command over the modes of the data.
RECURSIVE ModesLoop(_, _, _)
ModesLoop(info, items, command) ==
    IF items = <<>> THEN [status |-> "ok", value |-> command]
    ELSE LET mode == Head(items).k
             v == Head(items).v
         IN IF mode = "source" THEN ModesLoop(info, Tail(items), command)
            ELSE IF mode = "tracks"
                 THEN LET r == process_track_mode(info, v.list, << PyStr("tracks") >>)
                      IN IF r.status # "ok" THEN r
                         ELSE ModesLoop(info, Tail(items), command \o r.value)
            ELSE IF mode \in {"attachments", "timestamps", "cues"}
                 THEN ModesLoop(info, Tail(items),
                          command
                          \o << PyStr(IF mode # "timestamps" THEN mode ELSE "timestamps_v2") >>
                          \o IdFileTokens(v.list))
            ELSE IF mode \in {"chapters", "tags"}
                 THEN ModesLoop(info, Tail(items), command \o << PyStr(mode), v >>)
            ELSE ModesLoop(info, Tail(items), command)

\* data.source
DataSource(d) == d.dict[CHOOSE i \in 1..Len(d.dict) : d.dict[i].k = "source"].v

\* generate_command that leaves the source file out of the command.
extract_generate_command_without_source(d, info) ==
    IF ~TruthyDict(d) THEN [status |-> "None", value |-> <<>>]
    ELSE ModesLoop(info, d.dict, << PyStr(MKVEXTRACT_PATH) >>)

\* Mkvextract.generate_command (as_string False): [status, value]; status
\* "None" when it returns None.
extract_generate_command(d, info) ==
    IF ~TruthyDict(d) THEN [status |-> "None", value |-> <<>>]
    ELSE ModesLoop(info, d.dict, << PyStr(MKVEXTRACT_PATH), DataSource(d) >>)

\* Mkvextract.load_from_object of data the schema accepts; info is what the
\* identify call of MkvInfo answers.  Without a `tracks` array MkvInfo raises,
\* after self.data was set.
LoadExtract(d, info) ==
    /\ data' = PyDict(d)
    /\ IF info.has_tracks
       THEN /\ mkvinfo' = [tracks |-> process_info(info)]
            /\ result' = [op |-> "load_from_object", status |-> "ok", value |-> <<>>,
                          spawned |-> << IdentifyCommand(DataSource(PyDict(d)).str) >>,
                          args |-> PyDict(d)]
       ELSE /\ mkvinfo' = mkvinfo
            /\ result' = [op |-> "load_from_object", status |-> "BoxKeyError",
                          value |-> <<>>,
                          spawned |-> << IdentifyCommand(DataSource(PyDict(d)).str) >>,
                          args |-> PyDict(d)]
    /\ UNCHANGED <<mergeVars, files>>

\* Mkvextract.load_from_object of data the schema rejects: jsonschema.validate
\* raises before anything is set or run.
LoadExtractRejected(d) ==
    /\ result' = [op |-> "load_from_object", status |-> "ValidationError",
                  value |-> <<>>, spawned |-> <<>>, args |-> d]
    /\ UNCHANGED <<mergeVars, extractVars, files>>

\* Mkvextract.generate_command()
ExtractCommand ==
    /\ result' = [op |-> "extract_generate_command"] @@ extract_generate_command(data, mkvinfo)
    /\ UNCHANGED <<mergeVars, extractVars, files>>

\* ------------------------------------------- an extract job: SpecExtract

\* The most entries of the `tracks` mode of an extract job.
MaxEntries == 1

IdentifyVideoAudioAudioSubtitles ==
    [has_tracks |-> TRUE,
     tracks |-> << TrackRecord(0, "video", None),
                   TrackRecord(1, "audio", PyStr("eng")),
                   TrackRecord(2, "audio", PyStr("jpn")),
                   TrackRecord(3, "subtitles", PyStr("jpn")) >>]

\* What the identify call of an extract job can answer.
ExtractIdentifyOutputs ==
    { IdentifyVideoAudio, IdentifyVideoAudioAudioSubtitles,
      [has_tracks |-> FALSE, tracks |-> <<>>] }

\* The entries of the `tracks` mode: by id, or by type and language with the
\* id as the place among the tracks that match.
TrackEntries ==
    { [id |-> 0, filename |-> "t.out"],
      [id |-> 2, filename |-> "t.out"],
      [id |-> -1, filename |-> "t.out"],
      [id |-> 0, filename |-> "t.out", track_type |-> "audio"],
      [id |-> 1, filename |-> "t.out", language |-> "jpn"],
      [id |-> 0, filename |-> "t.out", track_type |-> "audio", language |-> "jpn"],
      [id |-> 1, filename |-> "t.out", track_type |-> "audio", language |-> "jpn"],
      [id |-> 0, filename |-> "t.out", track_type |-> "subtitles"],
      [id |-> 2, filename |-> "t.out", track_type |-> "audio"] }

TrackEntryLists == UNION { [1..n -> TrackEntries] : n \in 1..MaxEntries }

\* The other modes of a configuration, before and after its `tracks`.
OtherModes ==
    { <<>>,
      << KV("timestamps", PyList(<< [id |-> 2, filename |-> "ts.txt"] >>)) >>,
      << KV("chapters", PyStr("chapters.xml")),
         KV("attachments", PyList(<< [id |-> 1, filename |-> "font.ttf"],
                                     [id |-> 2, filename |-> "cover.jpg"] >>)) >>,
      << KV("cues", PyList(<< [id |-> 0, filename |-> "cues.txt"] >>)),
         KV("tags", PyStr("tags.xml")) >> }

\* The configurations loaded: the source, and the modes in some order.
ExtractConfigs ==
    { << KV("source", PyStr("movie.mkv")) >> \o c[1] \o c[2] \o c[3] :
          c \in { c \in OtherModes \X ({<<>>} \cup { << KV("tracks", PyList(l)) >> : l \in TrackEntryLists })
                        \X OtherModes : c[1] = <<>> \/ c[3] = <<>> } }

\* An extract job as Mkvextract.__init__ leaves it.
InitExtract ==
    /\ sources = <<>>
    /\ attachments = <<>>
    /\ track_order_override = <<>>
    /\ output = None
    /\ global_options = <<>>
    /\ data = None
    /\ mkvinfo = None
    /\ files = {}
    /\ result = Returned("init")

\* Data the schema of an extract job rejects: no source, a mode that is none
\* of the six.
RejectedExtractConfigs ==
    { PyDict(<< KV("chapters", PyStr("chapters.xml")) >>),
      PyDict(<< KV("source", PyStr("movie.mkv")), KV("subtitles", PyStr("s.srt")) >>) }

NextExtract ==
    \/ \E d \in ExtractConfigs, info \in ExtractIdentifyOutputs : LoadExtract(d, info)
    \/ \E d \in RejectedExtractConfigs : LoadExtractRejected(d)
    \/ ExtractCommand

SpecExtract == InitExtract /\ [][NextExtract]_vars

\* ------------------------------------------- loading a job: SpecLoad

\* The configurations of a merge job the schema accepts: two sources with
\* their tracks listed across the sources; one source; no track; and a track
\* of a source the configuration does not list.
MergeConfigs ==
    { [sources |-> << [filename |-> "test1.mkv", options |-> None,
                       info |-> IdentifyVideoAudio],
                      [filename |-> "/media/test2.mkv", options |-> None,
                       info |-> IdentifySubtitlesButtonsAudio] >>,
       tracks |-> << [source |-> 0, track |-> 0, options |-> None],
                     [source |-> 1, track |-> 2,
                      options |-> PyDict(<< KV("language", PyStr("jpn")) >>)],
                     [source |-> 0, track |-> 1, options |-> None] >>,
       output_file |-> "output.mkv",
       options |-> << KV("title", PyStr("Awesome Newly Muxed Video")) >>,
       attachments |-> << [filename |-> "fonts/test.otf", name |-> None,
                           mimetype |-> None] >>],
      [sources |-> << [filename |-> "test1.mkv", options |-> None,
                       info |-> IdentifyVideoAudio] >>,
       tracks |-> << [source |-> 0, track |-> 1, options |-> None] >>,
       output_file |-> "second.mkv"],
      [sources |-> << [filename |-> "/media/test2.mkv", options |-> None,
                       info |-> IdentifySubtitlesButtonsAudio] >>,
       tracks |-> <<>>,
       output_file |-> "output.mkv"],
      [sources |-> << [filename |-> "test1.mkv", options |-> None,
                       info |-> IdentifyVideoAudio] >>,
       tracks |-> << [source |-> 0, track |-> 0, options |-> None],
                     [source |-> 1, track |-> 0, options |-> None] >>,
       output_file |-> "output.mkv"] }

\* Configurations of a merge job the schema rejects: no tracks and no output
\* file; a track without its number.
RejectedMergeConfigs ==
    { [sources |-> << [filename |-> "test1.mkv", options |-> None,
                       info |-> IdentifyVideoAudio] >>],
      [sources |-> << [filename |-> "test1.mkv", options |-> None,
                       info |-> IdentifyVideoAudio] >>,
       tracks |-> << [source |-> 0] >>,
       output_file |-> "output.mkv"] }

\* The data of an extract job loaded next to a merge job.
LoadedExtractConfigs ==
    { << KV("source", PyStr("movie.mkv")), KV("tags", PyStr("tags.xml")) >>,
      << KV("source", PyStr("movie.mkv")),
         KV("tracks", PyList(<< [id |-> 0, filename |-> "t.out"] >>)) >> }

InitLoad ==
    /\ sources = <<>>
    /\ attachments = <<>>
    /\ track_order_override = <<>>
    /\ output = None
    /\ global_options = <<>>
    /\ data = None
    /\ mkvinfo = None
    /\ files = {}
    /\ result = Returned("init")

NextLoad ==
    \/ \E cfg \in MergeConfigs : LoadMerge(cfg, TRUE)
    \/ \E cfg \in RejectedMergeConfigs : LoadMerge(cfg, FALSE)
    \/ \E i \in 1..Len(sources), oid \in Oids : RemoveTrack(i, oid)
    \/ \E o \in TrackOrderOverrides : SetTrackOrderOverride(o)
    \/ TrackOrder
    \/ GenerateCommand
    \/ \E d \in LoadedExtractConfigs, info \in ExtractIdentifyOutputs :
           LoadExtract(d, info)
    \/ \E d \in RejectedExtractConfigs : LoadExtractRejected(d)

SpecLoad == InitLoad /\ [][NextLoad]_vars

\* ------------------------------- one value in every kind of option: SpecOptions

\* The values an option of a configuration takes.
OptionValues ==
    { None, PyBool(TRUE), PyBool(FALSE), PyInt(0), PyInt(2), PyStr(""), PyStr("eng") }

\* The option a caller sets among the global options, on a source and on a
\* track.
GlobalOptionName == "title"

ScalarOptionName == "chapter-sync"

TrackOptionName == "default-track"

\* A job of one source whose own option has one of the values.
InitOptions ==
    /\ \E v \in OptionValues :
           sources = << MkvSource("test1.mkv", PyDict(<< KV(ScalarOptionName, v) >>),
                                  IdentifyVideoAudio) >>
    /\ attachments = <<>>
    /\ track_order_override = <<>>
    /\ output = None
    /\ global_options = <<>>
    /\ data = None
    /\ mkvinfo = None
    /\ files = {}
    /\ result = Returned("init")

NextOptions ==
    \/ \E v \in OptionValues : SetGlobalOptions(<< KV(GlobalOptionName, v) >>)
    \/ \E v \in OptionValues :
           /\ sources[1].tracks = <<>>
           /\ AddNewTrack(1, 0, PyDict(<< KV(TrackOptionName, v) >>))
    \/ \E oid \in Oids : RemoveTrack(1, oid)
    \/ \E f \in OutputFiles : SetOutput(f)
    \/ GenerateCommand

SpecOptions == InitOptions /\ [][NextOptions]_vars

\* ------------------------------------------- claims about one source

\* Whether a token is in a command.
Contains(tokens, token) == \E i \in 1..Len(tokens) : tokens[i] = token

\* The source of SpecSource, and whether generate_options has just returned
\* its tokens.
TheSource == sources[1]

OptionsReturned == result.op = "generate_options" /\ result.status = "ok"

\* The record a declared track number is looked up as, once the lookup worked.
LookedUp(src, track) == ListGet(src.info.tracks, track)

\* The declared track numbers of a type, in declaration order.
DeclaredOfType(src, type) ==
    LET OfType(t) == /\ src.info.has_tracks
                     /\ ValidIndex(src.info.tracks, t.track)
                     /\ LookedUp(src, t.track).type = type
        kept == SelectSeq(src.tracks, OfType)
    IN [i \in 1..Len(kept) |-> kept[i].track]

KeepAll(src, type) == HasKey(src.options, "_copy-" \o type \o "-tracks")

ExclusionToken(type) == PyStr("--no-" \o type)

InclusionToken(type) ==
    PyStr(CASE type = "video" -> "--video-tracks"
            [] type = "audio" -> "--audio-tracks"
            [] type = "subtitles" -> "--subtitle-tracks"
            [] type = "buttons" -> "--button-tracks")

StructuralTypes == {"video", "audio", "subtitles", "buttons"}

\* C3: in the tokens generate_options returns, a structural type with no
\* declared track has its --no-<type> token, unless the source's keep-all
\* option of the type is set: then neither that token nor the type's inclusion
\* directive is there, whatever is declared.
C3_ExclusionUnlessKeepAll ==
    OptionsReturned =>
        \A type \in StructuralTypes :
            /\ KeepAll(TheSource, type) =>
                   /\ ~Contains(result.value, ExclusionToken(type))
                   /\ ~Contains(result.value, InclusionToken(type))
            /\ (~KeepAll(TheSource, type) /\ DeclaredOfType(TheSource, type) = <<>>) =>
                   Contains(result.value, ExclusionToken(type))

\* C3's case: tokens returned for a source that keeps all tracks of a type it
\* declares a track of, and declares none of another type it does not keep.
C3_Witness ==
    /\ OptionsReturned
    /\ \E type \in StructuralTypes :
           KeepAll(TheSource, type) /\ DeclaredOfType(TheSource, type) # <<>>
    /\ \E type \in StructuralTypes :
           ~KeepAll(TheSource, type) /\ DeclaredOfType(TheSource, type) = <<>>

\* The token that follows the inclusion directive of a type, when the
\* directive is there exactly once.
FollowsInclusion(tokens, type, list) ==
    /\ Cardinality({ i \in 1..Len(tokens) : tokens[i] = InclusionToken(type) }) = 1
    /\ \E i \in 1..(Len(tokens) - 1) :
           tokens[i] = InclusionToken(type) /\ tokens[i + 1] = PyStr(list)

Digits(ids) == [i \in 1..Len(ids) |-> ToString(ids[i])]

\* A list without the later copies of its elements.
RECURSIVE Distinct(_)
Distinct(list) ==
    IF list = <<>> THEN <<>>
    ELSE LET front == Distinct(SubSeq(list, 1, Len(list) - 1))
             last == list[Len(list)]
         IN IF \E i \in 1..Len(front) : front[i] = last THEN front
            ELSE Append(front, last)

\* C4 as claimed: the id list after a type's inclusion directive is the
\* declared track ids of the type in declaration order, with no id twice even
\* when it was declared twice.
C4_NoDuplicateIds ==
    OptionsReturned =>
        \A type \in StructuralTypes :
            (~KeepAll(TheSource, type) /\ DeclaredOfType(TheSource, type) # <<>>) =>
                FollowsInclusion(result.value, type,
                    Join(",", Digits(Distinct(DeclaredOfType(TheSource, type)))))

\* C4 as amended: the id list after a type's inclusion directive is the
\* declared track ids of the type, comma-joined, in declaration order, one
\* entry for each declaration: an id declared twice is listed twice.
C4_IdsInDeclarationOrder ==
    OptionsReturned =>
        \A type \in StructuralTypes :
            (~KeepAll(TheSource, type) /\ DeclaredOfType(TheSource, type) # <<>>) =>
                FollowsInclusion(result.value, type,
                    Join(",", Digits(DeclaredOfType(TheSource, type))))

\* C4's case: tokens returned for a source with two tracks of one type
\* declared out of numeric order, and for one with a track declared twice.
C4_Witness ==
    /\ OptionsReturned
    /\ \E type \in StructuralTypes :
           LET ids == DeclaredOfType(TheSource, type)
           IN ~KeepAll(TheSource, type) /\ Len(ids) = 2 /\ ids[1] >= ids[2]

\* C6: the fragment ends with "(", the source file's path, ")"; nothing of
\* the source follows that group, and the options of each mapping come in the
\* mapping's insertion order.
C6_GroupLastOptionsInOrder ==
    OptionsReturned =>
        LET v == result.value
            n == Len(v)
            src == TheSource
            sourceFlags == { PyStr("--" \o src.options[i].k) : i \in 1..Len(src.options) }
            trackFlags == UNION { { PyStr("--" \o src.tracks[j].options[i].k) :
                                        i \in 1..Len(src.tracks[j].options) } :
                                  j \in 1..Len(src.tracks) }
            IsSourceFlag(t) == t \in sourceFlags
            IsTrackFlag(t) == t \in trackFlags
            NotReserved(o) == Head(o.k) # "_"
            shown == SelectSeq(src.options, NotReserved)
        IN /\ n >= 3
           /\ v[n - 2] = PyStr("(")
           /\ v[n - 1] = PyStr(Absolute(src.source_file))
           /\ v[n] = PyStr(")")
           /\ \A i \in 1..n : (v[i] = PyStr("(") \/ v[i] = PyStr(")")) => i >= n - 2
           /\ SelectSeq(v, IsSourceFlag) = [i \in 1..Len(shown) |-> PyStr("--" \o shown[i].k)]
           /\ SelectSeq(v, IsTrackFlag) =
                  Flatten([j \in 1..Len(src.tracks) |->
                      [i \in 1..Len(src.tracks[j].options) |->
                          PyStr("--" \o src.tracks[j].options[i].k)]])

\* C6's case: tokens returned for a source with two options of its own and a
\* declared track with two options.
C6_Witness ==
    /\ OptionsReturned
    /\ Len(result.value) > 3
    /\ Len(ScalarOptionTokens(TheSource.options)) >= 2
    /\ \E j \in 1..Len(TheSource.tracks) : Len(TheSource.tracks[j].options) >= 2

\* The tokens C7 asks of one option of a declared track.
ClaimedTrackOption(track, option) ==
    IF IsNone(option.v) THEN << PyStr("--" \o option.k) >>
    ELSE << PyStr("--" \o option.k),
            PyStr(ToString(track) \o ":" \o Format(option.v)) >>

ClaimedTrackOptions(src) ==
    Flatten([j \in 1..Len(src.tracks) |->
        Flatten([i \in 1..Len(src.tracks[j].options) |->
            ClaimedTrackOption(src.tracks[j].track, src.tracks[j].options[i])])])

\* C7: every option of every declared track is emitted as --<name> and
\* <trackId>:<value> when it has a value and as the bare --<name> when its
\* value is absent; these tokens stand right before the file group.
C7_TrackOptionTokens ==
    OptionsReturned =>
        LET v == result.value
            want == ClaimedTrackOptions(TheSource)
        IN /\ Len(v) >= Len(want) + 3
           /\ SubSeq(v, Len(v) - 2 - Len(want), Len(v) - 3) = want

\* C7's case: tokens returned for a declared track that has an option without
\* a value and options whose values are a string, a number and a boolean.
C7_Witness ==
    /\ OptionsReturned
    /\ \E j \in 1..Len(TheSource.tracks) :
           \E i \in 1..Len(TheSource.tracks[j].options) :
               IsNone(TheSource.tracks[j].options[i].v)
    /\ \E j \in 1..Len(TheSource.tracks) :
           \E i \in 1..Len(TheSource.tracks[j].options) :
               LET x == TheSource.tracks[j].options[i].v IN IsBool(x) /\ ~x.bool

\* The ids of the source's cached track records.
RecordIds(src) == { src.info.tracks[i].id : i \in 1..Len(src.info.tracks) }

\* C8 as claimed: add_track never fails, and generate_options returns no
\* tokens for a source that declares a track whose id is not the id of one of
\* the source's track records.
C8_UnknownTrackIsFatal ==
    /\ result.op = "add_track" => result.status = "ok"
    /\ (/\ result.op = "generate_options"
        /\ \E j \in 1..Len(TheSource.tracks) :
               TheSource.tracks[j].track \notin RecordIds(TheSource))
           => result.status # "ok"

\* ------------------------------------------------------ a merge job: Spec

\* A merge job as MkvMerge.__init__ leaves it.
Init ==
    /\ sources = <<>>
    /\ attachments = <<>>
    /\ track_order_override = <<>>
    /\ output = None
    /\ global_options = <<>>
    /\ data = None
    /\ mkvinfo = None
    /\ files = {}
    /\ result = Returned("init")

Next ==
    \/ \E a \in JobSourceArgs :
           Size < MaxSize /\ AddSource(a.filename, a.options, a.info)
    \/ \E i \in 1..Len(sources), n \in 1..Len(JobTrackArgs) :
           Size < MaxSize /\ AddNewTrack(i, JobTrackArgs[n].track, JobTrackArgs[n].options)
    \/ \E i \in 1..Len(sources), j \in 1..Len(sources) :
           \E p \in 1..Len(sources[j].tracks) :
               Size < MaxSize /\ AddTrackAgain(i, j, p)
    \/ \E i \in 1..Len(sources), oid \in Oids \cup {FreshOid} : RemoveTrack(i, oid)
    \/ \E a \in JobAttachmentArgs :
           Size < MaxSize /\ AddAttachment(a.filename, a.name, a.mimetype)
    \/ \E f \in OutputFiles : SetOutput(f)
    \/ \E o \in GlobalOptionArgs : SetGlobalOptions(o)
    \/ \E o \in TrackOrderOverrides : SetTrackOrderOverride(o)
    \/ TrackOrder
    \/ GenerateCommand

Spec == Init /\ [][Next]_vars

\* ------------------------------------------- claims about a merge job

CommandReturned == result.op = "generate_command" /\ result.status = "ok"

\* The tracks declared on the sources before source number i (from 1).
RECURSIVE TracksBefore(_)
TracksBefore(i) == IF i <= 1 THEN 0 ELSE TracksBefore(i - 1) + Len(sources[i - 1].tracks)

\* list[1], ",", list[2], ... put together from the left.
RECURSIVE CommaJoined(_)
CommaJoined(list) ==
    IF list = <<>> THEN ""
    ELSE IF Len(list) = 1 THEN list[1]
    ELSE CommaJoined(SubSeq(list, 1, Len(list) - 1)) \o "," \o list[Len(list)]

\* The entry "<source-index>:<track-id>" of the j-th track declared on the i-th
\* source (both from 1; the source index in the entry is from 0).
OrderEntry(i, j) == ToString(i - 1) \o ":" \o ToString(sources[i].tracks[j].track)

\* C1: with no override, the track order read after any sequence of
\* add_source, add_track and remove_track holds one entry for each declared
\* track: the sources in declaration order, the tracks of each in declaration
\* order, each as "<source-index>:<track-id>"; it is the value emitted after
\* --track-order.  A mutation is the only thing that ends result being the
\* order read, so reading it again without one gives the same sequence.
C1_DerivedTrackOrder ==
    /\ (result.op = "track_order" /\ track_order_override = <<>>) =>
           /\ Len(result.value) = TracksBefore(Len(sources) + 1)
           /\ \A i \in 1..Len(sources) :
                  \A j \in 1..Len(sources[i].tracks) :
                      result.value[TracksBefore(i) + j] = OrderEntry(i, j)
    /\ (CommandReturned /\ track_order_override = <<>>) =>
           result.value[Len(result.value)] =
               PyStr(CommaJoined(Flatten([i \in 1..Len(sources) |->
                         [j \in 1..Len(sources[i].tracks) |-> OrderEntry(i, j)]])))

\* C1's case: the order read from a job with two sources that both declare a
\* track and no override.
C1_Witness ==
    /\ result.op = "track_order"
    /\ track_order_override = <<>>
    /\ Len(sources) = 2
    /\ sources[1].tracks # <<>>
    /\ sources[2].tracks # <<>>

\* C2: with an override list set (a non-empty list: an empty one is the state
\* of a job without override), the value generate_command emits after
\* --track-order is the comma-join of the override, and the track order read
\* is the override itself, whatever is declared.
C2_OverrideVerbatim ==
    /\ (CommandReturned /\ track_order_override # <<>>) =>
           /\ result.value[Len(result.value) - 1] = PyStr("--track-order")
           /\ result.value[Len(result.value)] = PyStr(CommaJoined(track_order_override))
    /\ (result.op = "track_order" /\ track_order_override # <<>>) =>
           result.value = track_order_override

\* C2's case: a command returned under an override that names a track no
\* source declares, for a job that declares another track.
C2_Witness ==
    /\ CommandReturned
    /\ track_order_override = << "1:0" >>
    /\ Len(sources) = 1
    /\ sources[1].tracks # <<>>

\* C5: the command is the executable path, --output and the output file, the
\* global option tokens, the fragment of each source in declaration order, the
\* fragment of each attachment in declaration order, and --track-order with
\* one value as the last two tokens.
C5_CommandOrder ==
    CommandReturned =>
        LET v == result.value
            head == << PyStr(MKVMERGE_PATH), PyStr("--output"),
                       PyStr(Absolute(output.str)) >>
            fragments == [i \in 1..Len(sources) |-> generate_options(sources[i]).value]
            attached == [i \in 1..Len(attachments) |->
                            attachment_generate_options(attachments[i])]
            body == head \o GlobalOptionTokens(global_options)
                    \o Flatten(fragments) \o Flatten(attached)
        IN /\ Len(v) = Len(body) + 2
           /\ SubSeq(v, 1, Len(body)) = body
           /\ v[Len(v) - 1] = PyStr("--track-order")
           /\ IsStr(v[Len(v)])
           /\ \A i \in 1..(Len(v) - 2) : v[i] # PyStr("--track-order")

\* C5's case: a command returned for a job with global options, two sources,
\* a declared track and an attachment.
C5_Witness ==
    /\ CommandReturned
    /\ global_options # <<>>
    /\ Len(sources) = 2
    /\ \E i \in 1..2 : sources[i].tracks # <<>>
    /\ attachments # <<>>

\* ------------------------------------------- claims about an extract job

\* generate_command was called on a job that holds track records and whose
\* data has a `tracks` mode.
ExtractReturned ==
    /\ result.op = "extract_generate_command"
    /\ ~IsNone(mkvinfo)
    /\ TruthyDict(data)
    /\ HasKey(data.dict, "tracks")

\* The entries of the `tracks` mode of the data.
Entries == data.dict[CHOOSE i \in 1..Len(data.dict) : data.dict[i].k = "tracks"].v.list

\* Whether an entry carries a type or a language filter.
IsFiltered(d) == ({"track_type", "language"} \cap DOMAIN d) # {}

\* The token of entry number k (from 1) in a command that was returned: the
\* k-th token after the mode label.
EntryToken(k) ==
    LET at == CHOOSE i \in 1..Len(result.value) : result.value[i] = PyStr("tracks")
    IN result.value[at + k]

\* <id>:<destinationFilename>
IdFile(id, filename) == PyStr(ToString(id) \o ":" \o filename)

\* The track records that match every filter an entry supplies, in their
\* original order.
Candidates(d) ==
    LET Matches(t) ==
            /\ "track_type" \in DOMAIN d => t.track_type = d.track_type
            /\ "language" \in DOMAIN d => t.track_lang = PyStr(d.language)
    IN SelectSeq(mkvinfo.tracks, Matches)

\* C9: whenever the command of an extract job is produced, the token of a
\* tracks entry that carries an id and no type/language filter is
\* <id>:<destinationFilename>, with the id exactly as the configuration gives
\* it, whatever the track records of the source are.
C9_IdEmittedAsGiven ==
    (ExtractReturned /\ result.status = "ok") =>
        \A k \in 1..Len(Entries) :
            (~IsFiltered(Entries[k]) /\ "id" \in DOMAIN Entries[k]) =>
                EntryToken(k) = IdFile(Entries[k].id, Entries[k].filename)

\* C10 as claimed: an entry that filters by type and/or language and has
\* exactly one matching track record resolves to that record's id.
C10_OneMatchReturnsItsId ==
    (ExtractReturned /\ \A k \in 1..Len(Entries) :
                            /\ IsFiltered(Entries[k])
                            /\ Len(Candidates(Entries[k])) = 1) =>
        /\ result.status = "ok"
        /\ \A k \in 1..Len(Entries) :
               EntryToken(k) = IdFile(Candidates(Entries[k])[1].track_id,
                                      Entries[k].filename)

\* Whether an entry filters and carries an ordinal n >= 0 (its id field).
HasOrdinal(d) == IsFiltered(d) /\ "id" \in DOMAIN d /\ d.id >= 0

\* C10 (amended): the id field of a filtering entry is the place, counted from
\* 0, of the wanted track among the candidates (the records matching every
\* supplied filter, in their original order): a place below the number of
\* candidates resolves to the id of the candidate at that place (so place 0
\* with exactly one match resolves to the match); a place at or beyond the
\* number of candidates raises IndexError and no command is produced.
C10_OrdinalAmongMatches ==
    ExtractReturned =>
        /\ \A k \in 1..Len(Entries) :
               LET d == Entries[k]
                   c == Candidates(d)
               IN HasOrdinal(d) =>
                      IF d.id < Len(c)
                      THEN result.status = "ok" =>
                               EntryToken(k) = IdFile(c[d.id + 1].track_id, d.filename)
                      ELSE /\ result.status # "ok"
                           /\ k = 1 => result.status = "IndexError"
        /\ (\A k \in 1..Len(Entries) :
                HasOrdinal(Entries[k])
                /\ Entries[k].id < Len(Candidates(Entries[k]))) =>
               result.status = "ok"

\* C10's case: a command returned for an entry that filters by type and
\* language with place 0, on a source with four tracks of which one matches.
C10_Witness ==
    /\ ExtractReturned
    /\ result.status = "ok"
    /\ Len(mkvinfo.tracks) = 4
    /\ \E k \in 1..Len(Entries) :
           /\ DOMAIN Entries[k] = {"id", "filename", "track_type", "language"}
           /\ Entries[k].id = 0
           /\ Len(Candidates(Entries[k])) = 1
           /\ EntryToken(k) = IdFile(2, Entries[k].filename)

\* C11: an entry that filters by type and/or language and whose candidates
\* are none, or fewer than its ordinal, makes generate_command fail: no
\* command is produced, and no other track is taken in its place.
C11_NoMatchOrTooFewIsFatal ==
    ExtractReturned =>
        \A k \in 1..Len(Entries) :
            LET d == Entries[k]
                c == Candidates(d)
            IN (IsFiltered(d) /\ "id" \in DOMAIN d /\ (c = <<>> \/ Len(c) < d.id)) =>
                   /\ result.status # "ok"
                   /\ result.value = <<>>
                   /\ k = 1 => result.status = "IndexError"

\* C11's case: generate_command failed on an entry whose filter matches none
\* of the tracks of a source that has tracks.
C11_Witness ==
    /\ ExtractReturned
    /\ result.status = "IndexError"
    /\ mkvinfo.tracks # <<>>
    /\ IsFiltered(Entries[1])
    /\ "id" \in DOMAIN Entries[1]
    /\ Candidates(Entries[1]) = <<>>

\* generate_command was called on an extract job.
ExtractCalled == result.op = "extract_generate_command"

\* The modes of the loaded data in the mapping's order, the source key left
\* out.
Modes ==
    LET IsMode(item) == item.k # "source"
    IN SelectSeq(data.dict, IsMode)

\* The label a mode is emitted under.
ModeLabel(k) == IF k = "timestamps" THEN "timestamps_v2" ELSE k

\* The number of tokens of the group of a mode.
GroupLen(item) ==
    IF item.k \in {"chapters", "tags"} THEN 2 ELSE 1 + Len(item.v.list)

\* The place in the command of the label of mode number n.
RECURSIVE GroupStart(_)
GroupStart(n) == IF n <= 1 THEN 3 ELSE GroupStart(n - 1) + GroupLen(Modes[n - 1])

\* The command starts with the executable path and the source file, and the
\* groups of the modes follow in the mapping's order; the group of chapters
\* and of tags is the label and the destination filename.
CommandOfGroups ==
    LET v == result.value
    IN /\ Len(v) = GroupStart(Len(Modes) + 1) - 1
       /\ v[1] = PyStr(MKVEXTRACT_PATH)
       /\ v[2] = DataSource(data)
       /\ \A n \in 1..Len(Modes) :
              /\ v[GroupStart(n)] = PyStr(ModeLabel(Modes[n].k))
              /\ Modes[n].k \in {"chapters", "tags"} =>
                     v[GroupStart(n) + 1] = Modes[n].v

\* C12 as claimed: every call of generate_command of an extract job returns
\* a token sequence of that shape.
C12_EveryCallReturnsCommand ==
    ExtractCalled => (result.status = "ok" /\ TruthyDict(data) /\ CommandOfGroups)

\* C12 (amended): a call of generate_command on a job that holds no data
\* returns None; on a job that holds data it returns a token sequence of that
\* shape, unless an entry of the tracks mode fails to resolve, in which case
\* it raises and returns nothing.
C12_CommandOfLoadedJob ==
    ExtractCalled =>
        /\ ~TruthyDict(data) => (result.status = "None" /\ result.value = <<>>)
        /\ TruthyDict(data) =>
               /\ result.status \in {"ok", "IndexError", "BoxKeyError", "AttributeError"}
               /\ result.status # "ok" => (HasKey(data.dict, "tracks") /\ result.value = <<>>)
               /\ result.status = "ok" => CommandOfGroups

\* C12's case: a command returned for data with chapters and attachments
\* before the tracks mode.
C12_Witness ==
    /\ ExtractCalled
    /\ result.status = "ok"
    /\ Len(Modes) = 3
    /\ Modes[1].k = "chapters"
    /\ Modes[3].k = "tracks"

\* C13: each entry of the modes attachments, cues and timestamps is emitted as
\* <id>:<filename> with the id as the configuration gives it, whatever the
\* track records are, after the label of the mode: the configuration key,
\* but timestamps_v2 for timestamps.
C13_IdEntriesAsGiven ==
    (ExtractCalled /\ result.status = "ok") =>
        \A n \in 1..Len(Modes) :
            Modes[n].k \in {"attachments", "cues", "timestamps"} =>
                LET entries == Modes[n].v.list
                    label == IF Modes[n].k = "attachments" THEN "attachments"
                             ELSE IF Modes[n].k = "cues" THEN "cues"
                             ELSE "timestamps_v2"
                IN /\ result.value[GroupStart(n)] = PyStr(label)
                   /\ \A e \in 1..Len(entries) :
                          result.value[GroupStart(n) + e]
                              = IdFile(entries[e].id, entries[e].filename)

\* C13's case: the command of a request with the single timestamps entry
\* {id: 2, filename: ts.txt} is the path, the source, timestamps_v2 and
\* 2:ts.txt, on a job that holds no track record of id 2.
C13_Witness ==
    /\ ExtractCalled
    /\ result.status = "ok"
    /\ Len(Modes) = 1
    /\ Modes[1] = KV("timestamps", PyList(<< [id |-> 2, filename |-> "ts.txt"] >>))
    /\ SubSeq(result.value, 3, 4) = << PyStr("timestamps_v2"), PyStr("2:ts.txt") >>
    /\ Len(result.value) = 4
    /\ IsNone(mkvinfo) \/ Len(mkvinfo.tracks) = 2

\* ------------------------------------------- claims about an attachment

\* The name and the MIME type the attachment at hand was given (None: none).
GivenName == attachments[1].name

GivenMimeType ==
    IF "mime_type" \in DOMAIN attachments[1] THEN attachments[1].mime_type
    ELSE attachments[1].mimetype

\* C14: the fragment of an attachment is --attachment-name, the name (the
\* base name of the file when no name was given), --attach-file, the absolute
\* path, and then --attachment-mime-type and the MIME type if and only if one
\* was given; without one the fragment holds no MIME type token and no token
\* that is None.
C14_AttachmentFragment ==
    result.op = "attachment_generate_options" =>
        LET a == attachments[1]
            v == result.value
            name == IF IsNone(GivenName) THEN PyStr(BaseName(a.filename)) ELSE GivenName
        IN /\ result.status = "ok"
           /\ SubSeq(v, 1, 4) = << PyStr("--attachment-name"), name,
                                   PyStr("--attach-file"), PyStr(Absolute(a.filename)) >>
           /\ IF IsNone(GivenMimeType) THEN Len(v) = 4
              ELSE /\ Len(v) = 6
                   /\ SubSeq(v, 5, 6) = << PyStr("--attachment-mime-type"), GivenMimeType >>
           /\ \A i \in 1..Len(v) : ~IsNone(v[i])

\* ------------------------------------------- claims about a merge run

\* C15: a merge run that returns has written the generated argument list
\* without the executable token to its options file (the temporary file by
\* default, the file the caller names when one is supplied) before it ran the
\* external tool, has run the tool once, with @<that file>, returns the
\* tool's exit status, and has deleted that file if and only if delete_temp
\* was set.
C15_MuxWritesRunsDeletes ==
    (result.op = "mux" /\ result.status = "ok") =>
        LET e == result.events
            file == IF Truthy(result.args.filename) THEN result.args.filename.str
                    ELSE e[1].file
            command == generate_command(sources, attachments, track_order_override,
                                        output, global_options).value
            Runs(i) == e[i].ev = "run"
        IN /\ Len(e) >= 3
           /\ e[1] = [ev |-> "open", file |-> file]
           /\ e[2] = [ev |-> "write", file |-> file, content |-> JsonDump(Tail(command))]
           /\ e[3].ev = "run"
           /\ e[3].argv = << MKVMERGE_PATH, "@" \o file >>
           /\ Cardinality({ i \in 1..Len(e) : Runs(i) }) = 1
           /\ result.value = e[3].returncode
           /\ (\E f \in files : f.name = file) <=> ~result.args.delete_temp

\* ------------------------------------------- claims about loading a job

\* C16: a load_from_object (of a merge or of an extract job) that the schema
\* validation fails runs no external command, and leaves what the job held
\* (sources, tracks, attachments, options, output, track-order override, the
\* data and track records of an extract job) as it was.
C16_RejectedLoadChangesNothing ==
    [][(result'.op = "load_from_object" /\ result'.status = "ValidationError") =>
           /\ result'.spawned = <<>>
           /\ mergeVars' = mergeVars
           /\ extractVars' = extractVars
           /\ files' = files]_vars

\* C16's case: a configuration was rejected on a job that holds sources,
\* tracks and an override from an earlier load.
C16_Witness ==
    /\ result.op = "load_from_object"
    /\ result.status = "ValidationError"
    /\ "sources" \in DOMAIN result.args
    /\ Len(sources) = 2
    /\ track_order_override = << "0:0", "1:2", "0:1" >>

\* source:track of each entry of the tracks array of a configuration, in the
\* array's order.
ListedOrder(cfg) ==
    [i \in 1..Len(cfg.tracks) |->
        ToString(cfg.tracks[i].source) \o ":" \o ToString(cfg.tracks[i].track)]

\* The track numbers a configuration lists for its source number i (from 0),
\* in the array's order.
ListedTracks(cfg, i) ==
    LET OfSource(t) == t.source = i
        listed == SelectSeq(cfg.tracks, OfSource)
    IN [j \in 1..Len(listed) |-> listed[j].track]

\* C19: after a merge job was loaded from a configuration with a non-empty
\* tracks array, the override is the array rendered as source:track in the
\* array's order, and it is the track order; the job holds the sources,
\* tracks and attachments of that configuration and nothing of what it held
\* before.
C19_LoadSetsOverrideAndReplaces ==
    (/\ result.op = "load_from_object"
     /\ result.status = "ok"
     /\ "tracks" \in DOMAIN result.args
     /\ result.args.tracks # <<>>) =>
        LET cfg == result.args
        IN /\ track_order_override = ListedOrder(cfg)
           /\ track_order(sources, track_order_override) = ListedOrder(cfg)
           /\ Len(sources) = Len(cfg.sources)
           /\ \A i \in 1..Len(sources) :
                  /\ sources[i].source_file = cfg.sources[i].filename
                  /\ [j \in 1..Len(sources[i].tracks) |-> sources[i].tracks[j].track]
                         = ListedTracks(cfg, i - 1)
           /\ Len(attachments) = Len(GetAttr(cfg, "attachments", <<>>))
           /\ output = PyStr(cfg.output_file)

\* C19's case: a job loaded from a configuration that lists the tracks of its
\* two sources interleaved, so that the listed order is not the derived one.
C19_Witness ==
    /\ result.op = "load_from_object"
    /\ result.status = "ok"
    /\ Len(sources) = 2
    /\ track_order_override = << "0:0", "1:2", "0:1" >>
    /\ DerivedOrder(sources, 0) = << "0:0", "0:1", "1:2" >>

\* ------------------------------------------- claims about remove_track

\* The declarations of the object oid in a list of declared tracks.
Declarations(list, oid) == Cardinality({ j \in 1..Len(list) : list[j].oid = oid })

\* The objects remove_track can be given: the declared ones and a new one.
Removable == Oids \cup {FreshOid}

\* C17, as stated: remove_track raises nothing, removing an object that is not
\* declared leaves the declared tracks as they are, and removing an object
\* twice leaves what removing it once leaves.
C17_RemoveTrackIdempotent ==
    /\ result.op = "remove_track" => result.status = "ok"
    /\ \A i \in 1..Len(sources), oid \in Removable :
           LET tracks == sources[i].tracks
           IN /\ Declarations(tracks, oid) = 0 => ListRemove(tracks, oid) = tracks
              /\ ListRemove(ListRemove(tracks, oid), oid) = ListRemove(tracks, oid)

\* C17, amended: remove_track raises nothing, removing an object that is not
\* declared leaves the declared tracks as they are, and removing twice an
\* object declared at most once leaves what removing it once leaves; of an
\* object declared several times every removal takes one declaration away.
C17_RemoveTrackOneDeclaration ==
    /\ result.op = "remove_track" => result.status = "ok"
    /\ \A i \in 1..Len(sources), oid \in Removable :
           LET tracks == sources[i].tracks
               once == ListRemove(tracks, oid)
               n == Declarations(tracks, oid)
           IN /\ n = 0 => once = tracks
              /\ n <= 1 => ListRemove(once, oid) = once
              /\ n >= 1 => /\ Declarations(once, oid) = n - 1
                           /\ Len(once) = Len(tracks) - 1
              /\ \A other \in Removable \ {oid} :
                     Declarations(once, other) = Declarations(tracks, other)

\* C17's case: a remove_track has run on a source that still declares two
\* objects once each, so that removals of a declared object and of an object
\* that is not declared are both at hand.
C17_Witness ==
    /\ result.op = "remove_track"
    /\ \E i \in 1..Len(sources) :
           /\ Len(sources[i].tracks) = 2
           /\ \A oid \in Oids : Declarations(sources[i].tracks, oid) = 1

\* ------------------------------------------- claims about option values

\* Where the token --name stands in a command, 0 when it does not.
PlaceOf(tokens, name) ==
    LET at == { p \in 1..Len(tokens) : tokens[p] = PyStr("--" \o name) }
    IN IF at = {} THEN 0 ELSE CHOOSE p \in at : \A q \in at : p <= q

\* A token that is no value of an option: the next flag, or the parenthesis
\* that opens the file group.
IsFlagToken(t) ==
    /\ IsStr(t)
    /\ \/ t.str = "("
       \/ Len(t.str) >= 2 /\ SubSeq(t.str, 1, 2) = "--"

\* The flag --name is in the command, bare.
EmittedBare(tokens, name) ==
    LET p == PlaceOf(tokens, name)
    IN p > 0 /\ (p = Len(tokens) \/ IsFlagToken(tokens[p + 1]))

\* The flag --name is in the command, followed by a value.
EmittedValued(tokens, name) ==
    LET p == PlaceOf(tokens, name)
    IN p > 0 /\ p < Len(tokens) /\ ~IsFlagToken(tokens[p + 1])

\* The option name is emitted bare if its value v is None, valued if not.
BareExactlyWhenAbsent(tokens, name, v) ==
    IF IsNone(v) THEN EmittedBare(tokens, name) ELSE EmittedValued(tokens, name)

\* C18: in a command generate_command returned, the global option, the
\* source's own option and the track's option are each a bare flag exactly
\* when the value is None and a flag followed by the value otherwise, so that
\* a value is never bare in one kind of option and valued in another.
C18_SameRuleForEveryKind ==
    (CommandReturned /\ Len(sources) = 1) =>
        LET tokens == result.value
        IN /\ \A n \in 1..Len(global_options) :
                  BareExactlyWhenAbsent(tokens, global_options[n].k, global_options[n].v)
           /\ \A n \in 1..Len(sources[1].options) :
                  BareExactlyWhenAbsent(tokens, sources[1].options[n].k,
                                        sources[1].options[n].v)
           /\ \A j \in 1..Len(sources[1].tracks) :
                  \A n \in 1..Len(sources[1].tracks[j].options) :
                      BareExactlyWhenAbsent(tokens, sources[1].tracks[j].options[n].k,
                                            sources[1].tracks[j].options[n].v)

====
